---- MODULE Spec2Model ----
(***************************************************************************)
(* Model of the Binance pair codec (src/src/exchanges/binance/pairs.rs)    *)
(* and of the Binance symbol endpoint types                                *)
(* (src/src/exchanges/binance/rest_api/endpoints/symbols.rs).              *)
(*                                                                         *)
(* Every operation of the two files is a pure function of its argument.    *)
(* A behaviour is one call: Init draws the operation and its argument,     *)
(* and the operation's action computes the value the code returns.         *)
(*                                                                         *)
(* Conventions.  A Rust String is a sequence of one-character strings.     *)
(* Option<T> is a sequence of length 0 (None) or 1 (Some).  A returned     *)
(* value is a record with a field kind: "ok" (Ok or a plain return),       *)
(* "err" (Err) or "panic" (the thread unwinds, nothing is returned).       *)
(***************************************************************************)
EXTENDS Integers, Sequences, FiniteSets, TLC

VARIABLES pc, op, arg, ret

vars == <<pc, op, arg, ret>>

\* ------------------------------------------------------------------------
\* Bounds of the model.
\* ------------------------------------------------------------------------
\* longest raw pair string handed to decode / encode
MaxPairLen == 4
\* longest base or quote symbol of an explicit base/quote pair
MaxSymLen == 1
\* longest raw string carried next to an explicit base/quote pair
MaxCarriedLen == 1
\* longest batch handed to batch normalization
MaxBatch == 3
\* longest local batch compared for equivalence
MaxLocal == 3
\* longest reference batch compared for equivalence
MaxRef == 2
\* longest array inside a response envelope
MaxElems == 3

\* ------------------------------------------------------------------------
\* Strings.
\* ------------------------------------------------------------------------
None == << >>
Some(x) == << x >>

LowerLetters ==
    << "a","b","c","d","e","f","g","h","i","j","k","l","m",
       "n","o","p","q","r","s","t","u","v","w","x","y","z" >>
UpperLetters ==
    << "A","B","C","D","E","F","G","H","I","J","K","L","M",
       "N","O","P","Q","R","S","T","U","V","W","X","Y","Z" >>

\* position of c in letters, 0 when absent
LetterIndex(c, letters) ==
    IF \E i \in 1..Len(letters) : letters[i] = c
    THEN CHOOSE i \in 1..Len(letters) : letters[i] = c
    ELSE 0

\* str::to_uppercase, on the ASCII characters the model draws
to_uppercase(s) ==
    [i \in 1..Len(s) |->
        IF LetterIndex(s[i], LowerLetters) > 0
        THEN UpperLetters[LetterIndex(s[i], LowerLetters)]
        ELSE s[i]]

\* str::to_lowercase, on the ASCII characters the model draws
to_lowercase(s) ==
    [i \in 1..Len(s) |->
        IF LetterIndex(s[i], UpperLetters) > 0
        THEN LowerLetters[LetterIndex(s[i], UpperLetters)]
        ELSE s[i]]

\* str::contains(char)
contains_char(s, c) == \E i \in 1..Len(s) : s[i] = c

\* str::contains(&str)
contains_str(s, pat) ==
    \E i \in 0..(Len(s) - Len(pat)) :
        \A j \in 1..Len(pat) : s[i + j] = pat[j]

\* str::starts_with(char)
starts_with(s, c) == Len(s) > 0 /\ s[1] = c

\* str::split(char), collected: the parts between the occurrences of d
RECURSIVE split(_, _)
split(s, d) ==
    IF ~contains_char(s, d)
    THEN << s >>
    ELSE LET i == CHOOSE k \in 1..Len(s) :
                      s[k] = d /\ \A m \in 1..(k - 1) : s[m] # d
         IN  << SubSeq(s, 1, i - 1) >> \o split(SubSeq(s, i + 1, Len(s)), d)

\* replace_delims leaving '/' in place
replace_delims_keep_slash(s) == SelectSeq(s, LAMBDA c : c \notin {"_", "-"})

\* str::replace(['_', '-', '/'], "")
replace_delims(s) == SelectSeq(s, LAMBDA c : c \notin {"_", "-", "/"})

\* strings over alphabet of length at most n
StringsUpTo(alphabet, n) == UNION { [1..k -> alphabet] : k \in 0..n }

\* ------------------------------------------------------------------------
\* pairs.rs: BinanceTradingPair
\* ------------------------------------------------------------------------
Ok(v) == [kind |-> "ok", value |-> v]
Err(m, text) == [kind |-> "err", msg |-> m, text |-> text]
Panic(at) == [kind |-> "panic", at |-> at]

is_valid(s) ==
    ~contains_char(s, "-") /\ ~contains_char(s, "_") /\ ~contains_char(s, "/")

\* try_from_str forgetting to uppercase
try_from_str_no_upper(value) ==
    IF is_valid(value)
    THEN Ok(value)
    ELSE Err("INVALID Binance trading pair contains a '-', '_', or '/'", Some(value))

\* impl TryFrom<&str> for BinanceTradingPair
try_from_str(value) ==
    IF is_valid(value)
    THEN Ok(to_uppercase(value))
    ELSE Err("INVALID Binance trading pair contains a '-', '_', or '/'", Some(value))

\* impl TryFrom<String> for BinanceTradingPair
try_from_string(value) == try_from_str(value)

\* BinanceTradingPair::new_checked
new_checked(s) == try_from_string(s)

\* impl Deserialize for BinanceTradingPair
deserialize_pair(s) == Ok(s)

\* try_from_normalized stripping the delimiters before it looks at the
\* declared delimiter
try_from_normalized_strip_first(value) ==
    IF value.base_quote # None
    THEN Ok(value.base_quote[1][1] \o value.base_quote[1][2])
    ELSE IF value.pair # None
    THEN LET raw_pair == value.pair[1]
             new_str  == replace_delims(raw_pair)
         IN  IF new_checked(raw_pair).kind = "ok"
             THEN new_checked(raw_pair)
             ELSE IF new_checked(new_str).kind = "ok"
             THEN new_checked(new_str)
             ELSE Err("INVALID Binance trading pair (raw)", Some(raw_pair))
    ELSE Err("INVALID Binance trading pair (value)", None)

\* impl TryFrom<NormalizedTradingPair> for BinanceTradingPair.
\* value.base_quote is Option<(base, quote)>, value.pair Option<raw string>,
\* value.delimiter Option<char>.
try_from_normalized(value) ==
    IF value.base_quote # None
    THEN Ok(value.base_quote[1][1] \o value.base_quote[1][2])
    ELSE IF value.pair # None
    THEN LET raw_pair == value.pair[1]
             delim    == value.delimiter
         IN  IF new_checked(raw_pair).kind = "ok"
             THEN new_checked(raw_pair)
             ELSE IF delim # None
             THEN LET parts == split(raw_pair, delim[1])
                  IN  IF Len(parts) < 2
                      THEN Panic("split.next().unwrap()")
                      ELSE Ok(to_uppercase(parts[1]) \o to_uppercase(parts[2]))
             ELSE LET new_str == replace_delims(raw_pair)
                  IN  IF new_checked(new_str).kind = "ok"
                      THEN new_checked(new_str)
                      ELSE Err("INVALID Binance trading pair (raw)", Some(raw_pair))
    ELSE Err("INVALID Binance trading pair (value)", None)

\* ------------------------------------------------------------------------
\* pairs.rs: BinanceTradingType
\* ------------------------------------------------------------------------
W_spot == << "s", "p", "o", "t" >>
W_perpetual == << "p", "e", "r", "p", "e", "t", "u", "a", "l" >>
W_perp == << "p", "e", "r", "p" >>
W_swap == << "s", "w", "a", "p" >>
W_linear == << "l", "i", "n", "e", "a", "r" >>
W_inverse == << "i", "n", "v", "e", "r", "s", "e" >>
W_futures == << "f", "u", "t", "u", "r", "e", "s" >>
W_margin == << "m", "a", "r", "g", "i", "n" >>
W_option == << "o", "p", "t", "i", "o", "n" >>

\* from_str matching the token as written
from_str_case_sensitive(value) ==
    IF value = W_spot THEN Ok("Spot")
    ELSE IF value \in {W_perpetual, W_perp, W_swap, W_linear, W_inverse}
    THEN Ok("Perpetual")
    ELSE IF value = W_futures THEN Ok("Futures")
    ELSE IF value = W_margin THEN Ok("Margin")
    ELSE IF value = W_option THEN Ok("Option")
    ELSE Ok("Other")

\* impl FromStr for BinanceTradingType
from_str(value) ==
    LET s == to_lowercase(value)
    IN  IF s = W_spot THEN Ok("Spot")
        ELSE IF s \in {W_perpetual, W_perp, W_swap, W_linear, W_inverse}
        THEN Ok("Perpetual")
        ELSE IF s = W_futures THEN Ok("Futures")
        ELSE IF s = W_margin THEN Ok("Margin")
        ELSE IF s = W_option THEN Ok("Option")
        ELSE Ok("Other")

\* impl From<BinanceTradingType> for NormalizedTradingType
into_normalized_type(val) ==
    CASE val = "Perpetual" -> "Perpetual"
      [] val = "Margin" -> "Margin"
      [] val = "Spot" -> "Spot"
      [] val = "Option" -> "Option"
      [] val = "Futures" -> "Futures"
      [] val = "Other" -> "Other"

\* ------------------------------------------------------------------------
\* symbols.rs: BinanceSymbol
\* ------------------------------------------------------------------------
\* A BinanceSymbol is [symbol, name, last_updated, platform], platform an
\* Option of [name, token_address]; the market fields, which no operation
\* reads, are left out.  A NormalizedCurrency is [exchange, symbol, name,
\* display_name, status, blockchains].
S_wrapped == << "w", "r", "a", "p", "p", "e", "d" >>

P_Ethereum == << "E", "t", "h", "e", "r", "e", "u", "m" >>
P_Solana == << "S", "o", "l", "a", "n", "a" >>
P_Dogechain == << "D", "o", "g", "e", "c", "h", "a", "i", "n" >>
A_0xaa == << "0", "x", "a", "a" >>

\* the chain names Blockchain::from_str recognizes
KnownChains == {P_Ethereum, P_Solana}

\* str::parse::<Blockchain>: fails on a name that is no known chain
parse_chain(name) ==
    IF name \in KnownChains
    THEN Ok([chain |-> name])
    ELSE Err("unrecognized blockchain", Some(name))

\* parse_blockchain testing name and symbol as written
parse_blockchain_case_sensitive(self) ==
    IF self.platform # None
    THEN LET pl == self.platform[1]
             is_wrapped ==
                 /\ contains_str(self.name, S_wrapped)
                 /\ starts_with(self.symbol, "w")
         IN  IF parse_chain(pl.name).kind # "ok"
             THEN Panic("pl.name.parse().unwrap()")
             ELSE Ok(Some([blockchain |-> parse_chain(pl.name).value,
                           address |-> Some(pl.token_address),
                           is_wrapped |-> is_wrapped,
                           wrapped_currency |-> None]))
    ELSE Ok(None)

\* BinanceSymbol::parse_blockchain; unwrap() of a failed parse panics
parse_blockchain(self) ==
    IF self.platform # None
    THEN LET pl == self.platform[1]
             is_wrapped ==
                 /\ contains_str(to_lowercase(self.name), S_wrapped)
                 /\ starts_with(to_lowercase(self.symbol), "w")
         IN  IF parse_chain(pl.name).kind # "ok"
             THEN Panic("pl.name.parse().unwrap()")
             ELSE Ok(Some([blockchain |-> parse_chain(pl.name).value,
                           address |-> Some(pl.token_address),
                           is_wrapped |-> is_wrapped,
                           wrapped_currency |-> None]))
    ELSE Ok(None)

\* format!("last updated: {:?}", last_updated)
format_status(last_updated) == [prefix |-> "last updated: ", debug |-> last_updated]

\* BinanceSymbol::normalize
normalize(self) ==
    LET parsed == parse_blockchain(self)
    IN  IF parsed.kind = "panic"
        THEN parsed
        ELSE Ok([exchange |-> "Binance",
                 symbol |-> self.symbol,
                 name |-> self.name,
                 display_name |-> None,
                 status |-> format_status(self.last_updated),
                 blockchains |-> IF parsed.value = None
                                 THEN << >>
                                 ELSE << parsed.value[1] >>])

\* NormalizedCurrency::handle_unwrapped: the pass that links wrapped and
\* unwrapped currencies; its result is kept symbolic
handle_unwrapped(normalized) == [linked_from |-> normalized]

\* BinanceAllSymbols::normalize
normalize_all(self) ==
    IF \E i \in 1..Len(self.symbols) : normalize(self.symbols[i]).kind = "panic"
    THEN Panic("pl.name.parse().unwrap()")
    ELSE Ok(handle_unwrapped(
                [i \in 1..Len(self.symbols) |-> normalize(self.symbols[i]).value]))

\* ------------------------------------------------------------------------
\* symbols.rs: BinanceAllSymbols
\* ------------------------------------------------------------------------
\* links_wrapped not reading the is_wrapped flag
links_wrapped_any_flag(blk) ==
    IF blk.wrapped_currency # None
    THEN LET blk_curr == blk.wrapped_currency[1]
         IN  /\ contains_str(to_lowercase(blk_curr.name), S_wrapped)
             /\ starts_with(to_lowercase(blk_curr.symbol), "w")
    ELSE FALSE

\* the closure given to any(): the platform links to a wrapped currency
links_wrapped(blk) ==
    IF blk.wrapped_currency # None
    THEN LET blk_curr == blk.wrapped_currency[1]
         IN  /\ blk.is_wrapped
             /\ contains_str(to_lowercase(blk_curr.name), S_wrapped)
             /\ starts_with(to_lowercase(blk_curr.symbol), "w")
    ELSE FALSE

\* impl PartialEq<NormalizedRestApiDataTypes> for BinanceAllSymbols
eq_all_currencies(self, other) ==
    IF other.variant = "AllCurrencies"
    THEN LET other_currs == other.currs
             this_currencies ==
                 { << self.symbols[i].name, self.symbols[i].symbol >> :
                       i \in 1..Len(self.symbols) }
             normalized_out ==
                 Cardinality({ i \in 1..Len(other_currs) :
                     \E k \in 1..Len(other_currs[i].blockchains) :
                         links_wrapped(other_currs[i].blockchains[k]) })
         IN  /\ Len(self.symbols) = Len(other_currs) + normalized_out
             /\ \A i \in 1..Len(other_currs) :
                    << other_currs[i].name, other_currs[i].symbol >> \in this_currencies
    ELSE FALSE

\* serde_json::Value: [t |-> "object", fields |-> [key -> Value]],
\* [t |-> "array", items |-> sequence of Value], [t |-> "string", s |-> text],
\* [t |-> "number", int, n] (the integer n, or with int FALSE a number written
\* with a fraction), [t |-> "bool", b], [t |-> "null"]
JObject(f) == [t |-> "object", fields |-> f]
JArray(items) == [t |-> "array", items |-> items]
JString(s) == [t |-> "string", s |-> s]
JInt(n) == [t |-> "number", int |-> TRUE, n |-> n]
JFloat(n) == [t |-> "number", int |-> FALSE, n |-> n]
JBool(b) == [t |-> "bool", b |-> b]
JNull == [t |-> "null"]

\* Value::get(&str)
get(v, key) ==
    IF v.t = "object" /\ key \in DOMAIN v.fields THEN Some(v.fields[key]) ELSE None

\* Value::as_array
as_array(v) == IF v.t = "array" THEN Some(v.items) ELSE None

\* the least element of a set of positions
least(S) == CHOOSE x \in S : \A y \in S : x <= y

\* The shapes a derived Deserialize decodes: a field is [name, key, ty], name
\* the Rust field, key the JSON key; sorted lists the fields by JSON key, the
\* order in which serde_json's map hands the keys of an object to the visitor.
TString == [k |-> "String"]
TF64 == [k |-> "f64"]
TU64 == [k |-> "u64"]
TBool == [k |-> "bool"]
TDateTime == [k |-> "DateTime"]
TOption(ty) == [k |-> "Option", of |-> ty]
TVec(ty) == [k |-> "Vec", of |-> ty]
TStruct(name, fields, sorted) ==
    [k |-> "struct", name |-> name, fields |-> fields, sorted |-> sorted]
Field(name, key, ty) == [name |-> name, key |-> key, ty |-> ty]

\* struct BinanceSymbolPlatform
BinanceSymbolPlatformType ==
    TStruct("BinanceSymbolPlatform",
        << Field("symbol", "symbol", TString),
           Field("name", "name", TString),
           Field("token_address", "token_address", TString),
           Field("id", "id", TU64),
           Field("slug", "slug", TString) >>,
        << 4, 2, 5, 1, 3 >>)

\* struct BinanceSymbolQuoteUSD
BinanceSymbolQuoteUSDType ==
    TStruct("BinanceSymbolQuoteUSD",
        << Field("fully_diluted_market_cap", "fully_diluted_market_cap", TF64),
           Field("last_updated", "last_updated", TDateTime),
           Field("market_cap_dominance", "market_cap_dominance", TF64),
           Field("tvl", "tvl", TOption(TF64)),
           Field("percent_change_30d", "percent_change_30d", TF64),
           Field("percent_change_1h", "percent_change_1h", TF64),
           Field("percent_change_24h", "percent_change_24h", TF64),
           Field("market_cap", "market_cap", TF64),
           Field("volume_change_24h", "volume_change_24h", TF64),
           Field("price", "price", TF64),
           Field("percent_change_60d", "percent_change_60d", TF64),
           Field("volume_24h", "volume_24h", TF64),
           Field("percent_change_90d", "percent_change_90d", TF64),
           Field("percent_change_7d", "percent_change_7d", TF64) >>,
        << 1, 2, 8, 3, 6, 7, 5, 11, 14, 13, 10, 4, 12, 9 >>)

\* struct BinanceAllSymbolsQuote
BinanceAllSymbolsQuoteType ==
    TStruct("BinanceAllSymbolsQuote",
        << Field("usd", "USD", BinanceSymbolQuoteUSDType) >>,
        << 1 >>)

\* struct BinanceSymbol
BinanceSymbolType ==
    TStruct("BinanceSymbol",
        << Field("symbol", "symbol", TString),
           Field("circulating_supply", "circulating_supply", TF64),
           Field("last_updated", "last_updated", TDateTime),
           Field("total_supply", "total_supply", TF64),
           Field("tvl_ratio", "tvl_ratio", TOption(TF64)),
           Field("cmc_rank", "cmc_rank", TU64),
           Field("self_reported_circulating_supply", "self_reported_circulating_supply", TOption(TF64)),
           Field("platform", "platform", TOption(BinanceSymbolPlatformType)),
           Field("tags", "tags", TVec(TString)),
           Field("date_added", "date_added", TDateTime),
           Field("quote", "quote", BinanceAllSymbolsQuoteType),
           Field("num_market_pairs", "num_market_pairs", TU64),
           Field("infinite_supply", "infinite_supply", TBool),
           Field("name", "name", TString),
           Field("max_supply", "max_supply", TOption(TF64)),
           Field("id", "id", TU64),
           Field("self_reported_market_cap", "self_reported_market_cap", TOption(TF64)),
           Field("slug", "slug", TString) >>,
        << 2, 6, 10, 16, 13, 3, 15, 14, 12, 8, 11, 7, 17, 18, 1, 9, 4, 5 >>)

TS_0 == << "1", "9", "7", "0", "-", "0", "1", "-", "0", "1", "T", "0", "0", ":", "0", "0", ":", "0", "0", "Z" >>
TS_1 == << "1", "9", "7", "0", "-", "0", "1", "-", "0", "1", "T", "0", "0", ":", "0", "0", ":", "0", "1", "Z" >>

\* chrono's Deserialize of DateTime<Utc>, tabulated on the timestamp texts
\* the model draws (a DateTime is kept as its seconds since the epoch); any
\* other text drawn is malformed
parse_datetime(s) ==
    IF s = TS_0 THEN Ok(0)
    ELSE IF s = TS_1 THEN Ok(1)
    ELSE Err("invalid value", Some("DateTime"))

\* serde_json::from_value::<T>, T given by its shape ty.  A struct is decoded
\* from an object (visit_map: the keys present are decoded in key order, the
\* first value that fails ends the decoding; then the first missing field
\* that is no Option, in declaration order, is reported; unknown keys are
\* ignored) or from an array (visit_seq: the fields in declaration order, one
\* element each, no element left over).
RECURSIVE from_value(_, _)
from_value(ty, v) ==
    CASE ty.k = "String" ->
            IF v.t = "string" THEN Ok(v.s) ELSE Err("invalid type", Some("String"))
      [] ty.k = "f64" ->
            IF v.t = "number"
            THEN Ok([int |-> v.int, n |-> v.n])
            ELSE Err("invalid type", Some("f64"))
      [] ty.k = "u64" ->
            IF v.t = "number" /\ v.int /\ v.n >= 0
            THEN Ok(v.n)
            ELSE IF v.t = "number" /\ v.int
            THEN Err("invalid value", Some("u64"))
            ELSE Err("invalid type", Some("u64"))
      [] ty.k = "bool" ->
            IF v.t = "bool" THEN Ok(v.b) ELSE Err("invalid type", Some("bool"))
      [] ty.k = "DateTime" ->
            IF v.t = "string"
            THEN parse_datetime(v.s)
            ELSE Err("invalid type", Some("DateTime"))
      [] ty.k = "Option" ->
            IF v.t = "null" THEN Ok(None)
            ELSE IF from_value(ty.of, v).kind = "ok"
            THEN Ok(Some(from_value(ty.of, v).value))
            ELSE from_value(ty.of, v)
      [] ty.k = "Vec" ->
            IF v.t # "array" THEN Err("invalid type", Some("Vec"))
            ELSE LET bad == {i \in 1..Len(v.items) :
                                from_value(ty.of, v.items[i]).kind # "ok"}
                 IN  IF bad # {}
                     THEN from_value(ty.of, v.items[least(bad)])
                     ELSE Ok([i \in 1..Len(v.items) |->
                                 from_value(ty.of, v.items[i]).value])
      [] ty.k = "struct" ->
            LET fields == ty.fields
                n == Len(fields)
                index(name) == CHOOSE i \in 1..n : fields[i].name = name
            IN  IF v.t = "object"
                THEN LET present(i) == fields[i].key \in DOMAIN v.fields
                         decoded(i) == from_value(fields[i].ty, v.fields[fields[i].key])
                         bad == {p \in 1..n : /\ present(ty.sorted[p])
                                              /\ decoded(ty.sorted[p]).kind # "ok"}
                         missing == {i \in 1..n : /\ ~present(i)
                                                  /\ fields[i].ty.k # "Option"}
                     IN  IF bad # {}
                         THEN decoded(ty.sorted[least(bad)])
                         ELSE IF missing # {}
                         THEN Err("missing field", Some(fields[least(missing)].key))
                         ELSE Ok([name \in {fields[i].name : i \in 1..n} |->
                                     IF present(index(name))
                                     THEN decoded(index(name)).value
                                     ELSE None])
                ELSE IF v.t = "array"
                THEN LET bad == {i \in 1..n :
                                    \/ i > Len(v.items)
                                    \/ from_value(fields[i].ty, v.items[i]).kind # "ok"}
                     IN  IF bad # {}
                         THEN IF least(bad) > Len(v.items)
                              THEN Err("invalid length", Some(ty.name))
                              ELSE from_value(fields[least(bad)].ty, v.items[least(bad)])
                         ELSE IF Len(v.items) > n
                         THEN Err("invalid length", Some(ty.name))
                         ELSE Ok([name \in {fields[i].name : i \in 1..n} |->
                                     from_value(fields[index(name)].ty,
                                                v.items[index(name)]).value])
                ELSE Err("invalid type", Some(ty.name))

\* serde_json::from_value::<BinanceSymbolPlatform>
from_value_platform(v) == from_value(BinanceSymbolPlatformType, v)

\* serde_json::from_value::<BinanceSymbol>
from_value_symbol(v) == from_value(BinanceSymbolType, v)

\* deserialize_all_symbols dropping the elements that do not decode
deserialize_all_symbols_skipping(val) ==
    IF get(val, "data") = None
    THEN Err("Could not find 'data' field in Binance symbols with addresses request", None)
    ELSE IF get(get(val, "data")[1], "body") = None
    THEN Err("Could not find 'body' field in Binance symbols with addresses request", None)
    ELSE IF get(get(get(val, "data")[1], "body")[1], "data") = None
    THEN Err("Could not find nested 'data' field in Binance symbols with addresses request", None)
    ELSE IF as_array(get(get(get(val, "data")[1], "body")[1], "data")[1]) = None
    THEN Err("Could not convert nested 'data' field in Binance symbols with addresses request to array", None)
    ELSE LET data == as_array(get(get(get(val, "data")[1], "body")[1], "data")[1])[1]
             good == SelectSeq(data, LAMBDA v : from_value_symbol(v).kind = "ok")
         IN  Ok([symbols |->
                   [i \in 1..Len(good) |-> from_value_symbol(good[i]).value]])

\* impl Deserialize for BinanceAllSymbols
deserialize_all_symbols(val) ==
    IF get(val, "data") = None
    THEN Err("Could not find 'data' field in Binance symbols with addresses request", None)
    ELSE IF get(get(val, "data")[1], "body") = None
    THEN Err("Could not find 'body' field in Binance symbols with addresses request", None)
    ELSE IF get(get(get(val, "data")[1], "body")[1], "data") = None
    THEN Err("Could not find nested 'data' field in Binance symbols with addresses request", None)
    ELSE IF as_array(get(get(get(val, "data")[1], "body")[1], "data")[1]) = None
    THEN Err("Could not convert nested 'data' field in Binance symbols with addresses request to array", None)
    ELSE LET data == as_array(get(get(get(val, "data")[1], "body")[1], "data")[1])[1]
         IN  IF \E i \in 1..Len(data) : from_value_symbol(data[i]).kind # "ok"
             THEN from_value_symbol(
                      data[CHOOSE i \in 1..Len(data) :
                               /\ from_value_symbol(data[i]).kind # "ok"
                               /\ \A k \in 1..(i - 1) :
                                      from_value_symbol(data[k]).kind = "ok"])
             ELSE Ok([symbols |->
                        [i \in 1..Len(data) |-> from_value_symbol(data[i]).value]])

\* ------------------------------------------------------------------------
\* Inputs.
\* ------------------------------------------------------------------------
PairAlphabet == {"b", "T", "-", "_", "/"}
SymAlphabet == {"b", "T", "-"}
Delimiters == {"-", "_", "/"}

PairStrings == StringsUpTo(PairAlphabet, MaxPairLen)

\* NormalizedTradingPair values: a raw string with an optional delimiter, an
\* explicit base/quote (whatever else is carried), or neither.
CanonicalPairs ==
    [base_quote : {None},
     pair : {None} \cup {Some(s) : s \in PairStrings},
     delimiter : {None} \cup {Some(d) : d \in Delimiters}]
    \cup
    [base_quote : {Some(<<b, q>>) : b \in StringsUpTo(SymAlphabet, MaxSymLen),
                                    q \in StringsUpTo(SymAlphabet, MaxSymLen)},
     pair : {None} \cup {Some(s) : s \in StringsUpTo(PairAlphabet, MaxCarriedLen)},
     delimiter : {None} \cup {Some(d) : d \in Delimiters}]

\* every spelling of word w in upper and lower case
CaseVariants(w) ==
    { [i \in 1..Len(w) |-> IF i \in S THEN to_uppercase(w)[i] ELSE w[i]] :
          S \in SUBSET (1..Len(w)) }

AliasWords ==
    {W_spot, W_perpetual, W_perp, W_swap, W_linear, W_inverse, W_futures,
     W_margin, W_option}
OtherWords ==
    {<< >>,
     << "s", "p", "o" >>,
     << "s", "p", "o", "t", "s" >>,
     << "f", "u", "t", "u", "r", "e" >>,
     << "o", "t", "h", "e", "r" >>,
     << "w", "e", "i", "r", "d", "-", "t", "o", "k", "e", "n" >>,
     << "p", "e", "r", " ", "p", "e", "t", "u", "a", "l" >>}

Tokens == UNION { CaseVariants(w) : w \in AliasWords \cup OtherWords }

TradingTypes == {"Spot", "Perpetual", "Margin", "Futures", "Option", "Other"}

N_Bitcoin == << "B", "i", "t", "c", "o", "i", "n" >>
N_WrappedBitcoin == << "W", "r", "a", "p", "p", "e", "d", " ", "B", "i", "t", "c", "o", "i", "n" >>
N_WRAPPEDEther == << "W", "R", "A", "P", "P", "E", "D", " ", "E", "t", "h", "e", "r" >>
N_unwrapped == << "u", "n", "w", "r", "a", "p", "p", "e", "d" >>
N_Wrap == << "W", "r", "a", "p" >>
N_Empty == << >>
Y_BTC == << "B", "T", "C" >>
Y_WBTC == << "W", "B", "T", "C" >>
Y_wETH == << "w", "E", "T", "H" >>
Y_W == << "W" >>
Y_BW == << "B", "W" >>

Names == {N_Bitcoin, N_WrappedBitcoin, N_WRAPPEDEther, N_unwrapped, N_Wrap, N_Empty}
Symbols == {Y_BTC, Y_WBTC, Y_wETH, Y_W, Y_BW, N_Empty}
PlatformNames == {P_Ethereum, P_Solana, P_Dogechain}
Addresses == {A_0xaa, N_Empty}
Platforms == {None} \cup {Some(pl) : pl \in [name : PlatformNames, token_address : Addresses]}

BinanceSymbols ==
    [symbol : Symbols, name : Names, last_updated : {0, 1}, platform : Platforms]

\* the records batches are made of
BatchSymbols ==
    [symbol : {Y_BTC, Y_WBTC}, name : {N_WrappedBitcoin}, last_updated : {0},
     platform : {None, Some([name |-> P_Ethereum, token_address |-> A_0xaa]),
                 Some([name |-> P_Dogechain, token_address |-> A_0xaa])}]

SeqsUpTo(S, n) == UNION { [1..k -> S] : k \in 0..n }

Batches == [symbols : SeqsUpTo(BatchSymbols, MaxBatch)]

\* local batches compared for equivalence: only name and symbol are read
LocalSymbols ==
    [symbol : {Y_BTC, Y_WBTC}, name : {N_Bitcoin, N_WrappedBitcoin},
     last_updated : {0}, platform : {None}] \
    {[symbol |-> Y_BTC, name |-> N_WrappedBitcoin, last_updated |-> 0, platform |-> None]}
LocalBatches == [symbols : SeqsUpTo(LocalSymbols, MaxLocal)]

\* platforms of reference currencies: [is_wrapped, wrapped_currency], the
\* wrapped currency given by the name and symbol the comparison reads
Link(n, y) == Some([name |-> n, symbol |-> y])
RefPlatformLists ==
    { << >>,
      << [is_wrapped |-> FALSE, wrapped_currency |-> None] >>,
      << [is_wrapped |-> TRUE, wrapped_currency |-> Link(N_WrappedBitcoin, Y_WBTC)] >>,
      << [is_wrapped |-> TRUE, wrapped_currency |-> Link(N_Bitcoin, Y_WBTC)] >>,
      << [is_wrapped |-> TRUE, wrapped_currency |-> Link(N_WRAPPEDEther, Y_BTC)] >>,
      << [is_wrapped |-> FALSE, wrapped_currency |-> Link(N_WrappedBitcoin, Y_WBTC)] >>,
      << [is_wrapped |-> TRUE, wrapped_currency |-> None],
         [is_wrapped |-> TRUE, wrapped_currency |-> Link(N_WRAPPEDEther, Y_wETH)] >> }
RefCurrencies ==
    [name : {N_Bitcoin}, symbol : {Y_BTC}, blockchains : RefPlatformLists]
    \cup
    [name : {N_WrappedBitcoin}, symbol : {Y_WBTC},
     blockchains : { << >>, << [is_wrapped |-> TRUE, wrapped_currency |-> None] >> }]
References ==
    [variant : {"AllCurrencies"}, currs : SeqsUpTo(RefCurrencies, MaxRef)]
    \cup
    [variant : {"AllInstruments"}, currs : {<< >>}]

\* the batches of the worked example: a reference batch of ten currencies,
\* the first two carrying a link to a wrapped currency, and a local batch of
\* twelve records over the same ten (or only nine of the ten) names/symbols
ExampleNames == << N_Bitcoin, N_WrappedBitcoin, N_WRAPPEDEther, N_unwrapped, N_Wrap >>
ExampleSymbols == << Y_BTC, Y_WBTC >>
ExampleName(i) == ExampleNames[((i - 1) % 5) + 1]
ExampleSymbol(i) == ExampleSymbols[((i - 1) \div 5) + 1]
ExampleReference(link) ==
    [variant |-> "AllCurrencies",
     currs |-> [i \in 1..10 |->
                  [name |-> ExampleName(i), symbol |-> ExampleSymbol(i),
                   blockchains |->
                       IF i <= 2
                       THEN << [is_wrapped |-> TRUE, wrapped_currency |-> link] >>
                       ELSE << >>]]]
ExampleLocal(covered) ==
    [symbols |-> [i \in 1..12 |->
                    [symbol |-> ExampleSymbol(((i - 1) % covered) + 1),
                     name |-> ExampleName(((i - 1) % covered) + 1),
                     last_updated |-> 0, platform |-> None]]]
ExampleComparisons ==
    [self : {ExampleLocal(10), ExampleLocal(9)},
     other : {ExampleReference(Link(N_WrappedBitcoin, Y_WBTC)),
              ExampleReference(Link(N_Bitcoin, Y_BTC))}]

\* response documents
\* the object with the keys and values of pairs (a sequence of <<key, value>>)
Object(pairs) ==
    JObject([k \in {pairs[i][1] : i \in 1..Len(pairs)} |->
                pairs[CHOOSE i \in 1..Len(pairs) : pairs[i][1] = k][2]])
\* obj with key set to v, obj without key
With(obj, key, v) ==
    JObject([k \in DOMAIN obj.fields \cup {key} |->
                IF k = key THEN v ELSE obj.fields[k]])
Without(obj, key) ==
    JObject([k \in DOMAIN obj.fields \ {key} |-> obj.fields[k]])

QuoteUSDObject ==
    Object(<< <<"fully_diluted_market_cap", JFloat(1)>>,
              <<"last_updated", JString(TS_1)>>,
              <<"market_cap_dominance", JInt(0)>>,
              <<"tvl", JNull>>,
              <<"percent_change_30d", JFloat(0 - 3)>>,
              <<"percent_change_1h", JFloat(0)>>,
              <<"percent_change_24h", JFloat(2)>>,
              <<"market_cap", JFloat(5)>>,
              <<"volume_change_24h", JFloat(0 - 1)>>,
              <<"price", JFloat(4)>>,
              <<"percent_change_60d", JFloat(6)>>,
              <<"volume_24h", JInt(9)>>,
              <<"percent_change_90d", JFloat(7)>>,
              <<"percent_change_7d", JFloat(8)>> >>)
PlatformObject ==
    Object(<< <<"symbol", JString(Y_wETH)>>,
              <<"name", JString(P_Ethereum)>>,
              <<"token_address", JString(A_0xaa)>>,
              <<"id", JInt(7)>>,
              <<"slug", JString(N_Wrap)>> >>)
\* the same platform in positional form
PlatformArray ==
    JArray(<< JString(Y_wETH), JString(P_Ethereum), JString(A_0xaa), JInt(7),
              JString(N_Wrap) >>)
\* a record without the optional keys
ElemPlain ==
    Object(<< <<"symbol", JString(Y_BTC)>>,
              <<"circulating_supply", JFloat(3)>>,
              <<"last_updated", JString(TS_0)>>,
              <<"total_supply", JInt(4)>>,
              <<"cmc_rank", JInt(1)>>,
              <<"tags", JArray(<< JString(N_Wrap) >>)>>,
              <<"date_added", JString(TS_0)>>,
              <<"quote", Object(<< <<"USD", QuoteUSDObject>> >>)>>,
              <<"num_market_pairs", JInt(2)>>,
              <<"infinite_supply", JBool(FALSE)>>,
              <<"name", JString(N_Bitcoin)>>,
              <<"id", JInt(1)>>,
              <<"slug", JString(N_Bitcoin)>> >>)
ElemPlatform ==
    With(With(With(ElemPlain, "symbol", JString(Y_WBTC)),
              "name", JString(N_WrappedBitcoin)),
         "platform", PlatformObject)
ElemNullPlatform == With(ElemPlain, "platform", JNull)
\* a record in positional form, its platform in positional form too
ElemPositional ==
    JArray(<< JString(Y_WBTC), JFloat(3), JString(TS_1), JInt(4), JNull, JInt(1),
              JNull, PlatformArray, JArray(<< >>), JString(TS_0),
              JArray(<< JArray(<< JInt(1), JString(TS_0), JInt(0), JNull, JInt(0),
                                  JInt(0), JInt(0), JInt(0), JInt(0), JInt(0),
                                  JInt(0), JInt(0), JInt(0), JInt(0) >>) >>),
              JInt(2), JBool(TRUE), JString(N_WrappedBitcoin), JNull, JInt(1),
              JNull, JString(N_Wrap) >>)
ElemNoSymbol == Without(ElemPlain, "symbol")
ElemBadName == With(ElemPlain, "name", JInt(7))
\* no symbol, and a platform that does not decode
ElemBadPlatformNoSymbol == With(Without(ElemPlain, "symbol"), "platform", JInt(7))
Elements ==
    {ElemPlain, ElemPlatform, ElemNullPlatform, ElemPositional, ElemNoSymbol,
     ElemBadName, ElemBadPlatformNoSymbol, JNull}

Wrap1(key, v) == JObject([k \in {key} |-> v])
NoFields == JObject([k \in {} |-> JNull])
Terminals ==
    {JArray(items) : items \in SeqsUpTo(Elements, MaxElems)}
    \cup {JNull, JString(N_Bitcoin), NoFields}
Documents ==
    {Wrap1("data", Wrap1("body", Wrap1("data", v))) : v \in Terminals}
    \cup {Wrap1("data", Wrap1("body", v)) : v \in {NoFields, JNull, Wrap1("body", JArray(<< >>))}}
    \cup {Wrap1("data", v) : v \in {NoFields, JNull, Wrap1("data", JArray(<< >>))}}
    \cup {NoFields, JNull, JArray(<< >>), Wrap1("body", Wrap1("data", JArray(<< >>)))}

Pending == [kind |-> "pending"]

Init ==
    /\ pc = "call"
    /\ ret = Pending
    /\ \/ op = "decode" /\ arg \in PairStrings
       \/ op = "deserialize_pair" /\ arg \in PairStrings
       \/ op = "encode" /\ arg \in CanonicalPairs
       \/ op = "from_str" /\ arg \in Tokens
       \/ op = "into_normalized_type" /\ arg \in TradingTypes
       \/ op = "normalize" /\ arg \in BinanceSymbols
       \/ op = "normalize_all" /\ arg \in Batches
       \/ op = "eq" /\ arg \in [self : LocalBatches, other : References]
                                 \cup ExampleComparisons
       \/ op = "deserialize_all_symbols" /\ arg \in Documents

Decode ==
    /\ pc = "call" /\ op = "decode"
    /\ ret' = new_checked(arg)
    /\ pc' = "done"
    /\ UNCHANGED <<op, arg>>

DeserializePair ==
    /\ pc = "call" /\ op = "deserialize_pair"
    /\ ret' = deserialize_pair(arg)
    /\ pc' = "done"
    /\ UNCHANGED <<op, arg>>

Encode ==
    /\ pc = "call" /\ op = "encode"
    /\ ret' = try_from_normalized(arg)
    /\ pc' = "done"
    /\ UNCHANGED <<op, arg>>

FromStr ==
    /\ pc = "call" /\ op = "from_str"
    /\ ret' = from_str(arg)
    /\ pc' = "done"
    /\ UNCHANGED <<op, arg>>

IntoNormalizedType ==
    /\ pc = "call" /\ op = "into_normalized_type"
    /\ ret' = Ok(into_normalized_type(arg))
    /\ pc' = "done"
    /\ UNCHANGED <<op, arg>>

Normalize ==
    /\ pc = "call" /\ op = "normalize"
    /\ ret' = normalize(arg)
    /\ pc' = "done"
    /\ UNCHANGED <<op, arg>>

NormalizeAll ==
    /\ pc = "call" /\ op = "normalize_all"
    /\ ret' = normalize_all(arg)
    /\ pc' = "done"
    /\ UNCHANGED <<op, arg>>

Equivalent ==
    /\ pc = "call" /\ op = "eq"
    /\ ret' = Ok(eq_all_currencies(arg.self, arg.other))
    /\ pc' = "done"
    /\ UNCHANGED <<op, arg>>

DeserializeAllSymbols ==
    /\ pc = "call" /\ op = "deserialize_all_symbols"
    /\ ret' = deserialize_all_symbols(arg)
    /\ pc' = "done"
    /\ UNCHANGED <<op, arg>>

Next ==
    \/ Decode
    \/ DeserializePair
    \/ Encode
    \/ FromStr
    \/ IntoNormalizedType
    \/ Normalize
    \/ NormalizeAll
    \/ Equivalent
    \/ DeserializeAllSymbols

Spec == Init /\ [][Next]_vars

\* ------------------------------------------------------------------------
\* Properties of the pair codec.
\* ------------------------------------------------------------------------
Done(o) == pc = "done" /\ op = o

\* the uppercase of each character the pair inputs are drawn from
UpperOf(c) == IF c = "b" THEN "B" ELSE c
Uppercased(s) == [i \in 1..Len(s) |-> UpperOf(s[i])]
HasDelimiter(s) == \E i \in 1..Len(s) : s[i] \in Delimiters
IsUppercase(s) == \A i \in 1..Len(s) : s[i] \notin {"b"}

\* positions of d in s
Occurrences(s, d) == {i \in 1..Len(s) : s[i] = d}
Min(S) == CHOOSE x \in S : \A y \in S : x <= y
\* the text before the first d
FirstPart(s, d) == SubSeq(s, 1, Min(Occurrences(s, d)) - 1)
\* the text between the first d and the next d (or the end)
SecondPart(s, d) ==
    LET first == Min(Occurrences(s, d))
        later == {i \in Occurrences(s, d) : i > first}
    IN  SubSeq(s, first + 1, IF later = {} THEN Len(s) ELSE Min(later) - 1)
\* s without its delimiter characters, built character by character
RECURSIVE Stripped(_)
Stripped(s) ==
    IF s = << >> THEN << >>
    ELSE IF Head(s) \in Delimiters THEN Stripped(Tail(s))
    ELSE << Head(s) >> \o Stripped(Tail(s))

\* C1: encode returns the result of the first strategy that applies, in the
\* order explicit base/quote (verbatim), valid raw string (uppercased),
\* declared delimiter (uppercased first and second part), stripped raw string
\* (uppercased); a raw string that lacks the declared delimiter yields no
\* value from a later strategy.
C1_EncodeStrategyOrder ==
    Done("encode") =>
        IF arg.base_quote # None
        THEN ret = Ok(arg.base_quote[1][1] \o arg.base_quote[1][2])
        ELSE IF arg.pair = None
        THEN ret.kind = "err"
        ELSE IF ~HasDelimiter(arg.pair[1])
        THEN ret = Ok(Uppercased(arg.pair[1]))
        ELSE IF arg.delimiter # None
        THEN IF Occurrences(arg.pair[1], arg.delimiter[1]) # {}
             THEN ret = Ok(Uppercased(FirstPart(arg.pair[1], arg.delimiter[1]))
                           \o Uppercased(SecondPart(arg.pair[1], arg.delimiter[1])))
             ELSE ret.kind # "ok"
        ELSE ret = Ok(Uppercased(Stripped(arg.pair[1])))

\* a raw string that is valid as it stands, with a delimiter declared, has
\* been encoded by the second strategy
C1_Witness ==
    /\ Done("encode")
    /\ arg.base_quote = None
    /\ arg.pair = Some(<<"b", "T">>)
    /\ arg.delimiter = Some("-")
    /\ ret = Ok(<<"B", "T">>)

\* C2 (as claimed): every value decode or encode returns is uppercase, holds
\* none of '-', '_', '/', passes is_valid and decodes to itself.
C2_NativePairAlwaysValid ==
    (pc = "done" /\ op \in {"decode", "encode"} /\ ret.kind = "ok") =>
        /\ IsUppercase(ret.value)
        /\ ~HasDelimiter(ret.value)
        /\ is_valid(ret.value)
        /\ new_checked(ret.value) = Ok(ret.value)

\* C3: decode fails exactly on the strings holding one of '-', '_', '/',
\* returns the uppercased string otherwise, and decoding a returned value
\* returns that value again.
C3_DecodeValidatesAndIsIdempotent ==
    Done("decode") =>
        /\ ret.kind \in {"ok", "err"}
        /\ ret.kind = "err" <=> HasDelimiter(arg)
        /\ ret.kind = "ok" =>
              /\ ret.value = Uppercased(arg)
              /\ new_checked(ret.value) = ret

\* a lowercase character has been uppercased by a successful decode
C3_Witness ==
    /\ Done("decode")
    /\ arg = <<"b", "T", "b">>
    /\ ret = Ok(<<"B", "T", "B">>)

\* "the split yields exactly two non-empty parts"
ExactlyTwoNonEmptyParts(s, d) ==
    /\ Cardinality(Occurrences(s, d)) = 1
    /\ s[1] # d
    /\ s[Len(s)] # d

\* C9 (as claimed): in the delimiter strategy, a raw string whose split on
\* the declared delimiter is not exactly two non-empty parts makes encode
\* stop with a panic instead of returning a value.
C9_BadSplitPanics ==
    (/\ Done("encode")
     /\ arg.base_quote = None
     /\ arg.pair # None
     /\ arg.delimiter # None
     /\ HasDelimiter(arg.pair[1])
     /\ ~ExactlyTwoNonEmptyParts(arg.pair[1], arg.delimiter[1]))
        => ret.kind = "panic"

\* C10: a canonical pair that carries a raw string never makes encode return
\* an error, since the stripped raw string always validates; encode errs only
\* when neither base/quote nor a raw string is carried, and that error does
\* not carry raw text.
C10_RawNeverInvalid ==
    Done("encode") =>
        /\ arg.pair # None =>
              /\ ret.kind # "err"
              /\ is_valid(replace_delims(arg.pair[1]))
        /\ ret.kind = "err" =>
              /\ arg.base_quote = None
              /\ arg.pair = None
              /\ ret.text = None

\* the strip-and-retry strategy has produced the value
C10_Witness ==
    /\ Done("encode")
    /\ arg.base_quote = None
    /\ arg.pair = Some(<<"b", "/", "T", "_">>)
    /\ arg.delimiter = None
    /\ ret = Ok(<<"B", "T">>)

\* ------------------------------------------------------------------------
\* Properties of the trading-type mapper.
\* ------------------------------------------------------------------------
\* tok spells word, in any mix of upper and lower case
SpellsIgnoringCase(tok, word) ==
    /\ Len(tok) = Len(word)
    /\ \A i \in 1..Len(word) :
           \/ tok[i] = word[i]
           \/ /\ LetterIndex(word[i], LowerLetters) > 0
              /\ tok[i] = UpperLetters[LetterIndex(word[i], LowerLetters)]

\* C8: parsing a trading type never fails, and maps spot to Spot, perpetual,
\* perp, swap, linear, inverse to Perpetual, futures to Futures, margin to
\* Margin, option to Option, whatever the case of the letters, and every
\* other token to Other.
C8_TradingTypeTotal ==
    Done("from_str") =>
        /\ ret.kind = "ok"
        /\ ret.value =
              (IF SpellsIgnoringCase(arg, W_spot) THEN "Spot"
               ELSE IF \E w \in {W_perpetual, W_perp, W_swap, W_linear, W_inverse} :
                           SpellsIgnoringCase(arg, w)
               THEN "Perpetual"
               ELSE IF SpellsIgnoringCase(arg, W_futures) THEN "Futures"
               ELSE IF SpellsIgnoringCase(arg, W_margin) THEN "Margin"
               ELSE IF SpellsIgnoringCase(arg, W_option) THEN "Option"
               ELSE "Other")

\* an alias written in upper case has been mapped
C8_Witness ==
    /\ Done("from_str")
    /\ arg = << "S", "W", "A", "P" >>
    /\ ret = Ok("Perpetual")

\* ------------------------------------------------------------------------
\* Properties of the currency normalizer.
\* ------------------------------------------------------------------------
\* the names drawn that hold "wrapped" in some case, the symbols drawn that
\* start with w or W
WrappedNames == {N_WrappedBitcoin, N_WRAPPEDEther, N_unwrapped}
WSymbols == {Y_WBTC, Y_wETH, Y_W}

\* C5: normalize copies symbol and name; the blockchains list is empty
\* exactly when the record has no platform; a record with a platform yields
\* one platform entry with the token address, no wrapped currency, and
\* is_wrapped set iff the name holds "wrapped" and the symbol starts with w,
\* both case-insensitively.
C5_NormalizeRecord ==
    Done("normalize") =>
        /\ arg.platform = None => ret.kind = "ok"
        /\ (arg.platform # None /\ arg.platform[1].name \in KnownChains)
               => ret.kind = "ok"
        /\ ret.kind = "ok" =>
              /\ ret.value.symbol = arg.symbol
              /\ ret.value.name = arg.name
              /\ ret.value.blockchains = << >> <=> arg.platform = None
              /\ arg.platform # None =>
                    /\ Len(ret.value.blockchains) = 1
                    /\ ret.value.blockchains[1].address
                           = Some(arg.platform[1].token_address)
                    /\ ret.value.blockchains[1].wrapped_currency = None
                    /\ ret.value.blockchains[1].is_wrapped
                           <=> (arg.name \in WrappedNames /\ arg.symbol \in WSymbols)

\* a record with a platform, a mixed-case wrapped name and a w symbol has
\* been normalized to a wrapped platform entry
C5_Witness ==
    /\ Done("normalize")
    /\ arg.name = N_WRAPPEDEther
    /\ arg.symbol = Y_wETH
    /\ arg.platform # None
    /\ ret.kind = "ok"
    /\ Len(ret.value.blockchains) = 1
    /\ ret.value.blockchains[1].is_wrapped

\* C7 (as claimed): a platform name that is no recognized chain makes
\* normalize, and batch normalization over a batch holding such a record,
\* return a typed error and never a currency.
C7_UnrecognizedChainIsTypedError ==
    /\ (/\ Done("normalize")
        /\ arg.platform # None
        /\ arg.platform[1].name \notin KnownChains)
           => ret.kind = "err"
    /\ (/\ Done("normalize_all")
        /\ \E i \in 1..Len(arg.symbols) :
               /\ arg.symbols[i].platform # None
               /\ arg.symbols[i].platform[1].name \notin KnownChains)
           => ret.kind = "err"

\* ------------------------------------------------------------------------
\* Properties of the equivalence validator.
\* ------------------------------------------------------------------------
\* number of the elements of seq that satisfy P
CountWhere(seq, P(_)) == Cardinality({i \in 1..Len(seq) : P(seq[i])})

SomePlatform(curr, P(_)) == \E k \in 1..Len(curr.blockchains) : P(curr.blockchains[k])

\* a platform flagged wrapped with a wrapped currency set
FlaggedAndLinked(blk) == blk.is_wrapped /\ blk.wrapped_currency # None
\* ... whose wrapped currency is named and symbolled as a wrapped token
FlaggedAndLinkedToWrapped(blk) ==
    /\ FlaggedAndLinked(blk)
    /\ blk.wrapped_currency[1].name \in WrappedNames
    /\ blk.wrapped_currency[1].symbol \in WSymbols

Covered(local, reference) ==
    \A i \in 1..Len(reference) :
        \E j \in 1..Len(local) :
            /\ local[j].name = reference[i].name
            /\ local[j].symbol = reference[i].symbol

\* C4 (as claimed): two batches are equivalent iff the local length is the
\* reference length plus the number of reference entries with a platform
\* flagged wrapped and a wrapped currency set, and every reference
\* (name, symbol) is among the local ones.
C4_SyntheticCountByFlagAndLink ==
    (Done("eq") /\ arg.other.variant = "AllCurrencies") =>
        ret.value <=>
            /\ Len(arg.self.symbols) = Len(arg.other.currs)
                   + CountWhere(arg.other.currs,
                                LAMBDA c : SomePlatform(c, FlaggedAndLinked))
            /\ Covered(arg.self.symbols, arg.other.currs)

\* C4 (amended): as above, the synthetic count taking only the reference
\* entries with a platform flagged wrapped whose wrapped currency is set, has
\* "wrapped" in its lowercased name and a lowercased symbol starting with w.
C4_SyntheticCountByWrappedLink ==
    (Done("eq") /\ arg.other.variant = "AllCurrencies") =>
        ret.value <=>
            /\ Len(arg.self.symbols) = Len(arg.other.currs)
                   + CountWhere(arg.other.currs,
                                LAMBDA c : SomePlatform(c, FlaggedAndLinkedToWrapped))
            /\ Covered(arg.self.symbols, arg.other.currs)

\* the worked example: ten reference entries, two of them linked to a
\* wrapped token, compared equal to twelve local records
C4_Witness ==
    /\ Done("eq")
    /\ arg.self = ExampleLocal(10)
    /\ arg.other = ExampleReference(Link(N_WrappedBitcoin, Y_WBTC))
    /\ ret = Ok(TRUE)

\* ------------------------------------------------------------------------
\* Properties of the envelope unwrapper.
\* ------------------------------------------------------------------------
HasKey(v, key) == v.t = "object" /\ key \in DOMAIN v.fields
\* the elements drawn that decode into a record
Decodable == {ElemPlain, ElemPlatform, ElemNullPlatform, ElemPositional}
\* the symbol and the name each of them carries
CarriedSymbol(e) == IF e \in {ElemPlatform, ElemPositional} THEN Y_WBTC ELSE Y_BTC
CarriedName(e) == IF e \in {ElemPlatform, ElemPositional} THEN N_WrappedBitcoin ELSE N_Bitcoin

\* C6: unwrap fails naming the first missing segment of data -> body -> data,
\* fails when the terminal value is no array, fails as a whole (returning no
\* record) when one element does not decode, and otherwise returns one
\* record per element in array order.
C6_UnwrapEnvelope ==
    Done("deserialize_all_symbols") =>
        IF ~HasKey(arg, "data")
        THEN ret = Err("Could not find 'data' field in Binance symbols with addresses request", None)
        ELSE IF ~HasKey(arg.fields["data"], "body")
        THEN ret = Err("Could not find 'body' field in Binance symbols with addresses request", None)
        ELSE IF ~HasKey(arg.fields["data"].fields["body"], "data")
        THEN ret = Err("Could not find nested 'data' field in Binance symbols with addresses request", None)
        ELSE LET terminal == arg.fields["data"].fields["body"].fields["data"]
             IN  IF terminal.t # "array"
                 THEN ret = Err("Could not convert nested 'data' field in Binance symbols with addresses request to array", None)
                 ELSE IF \E i \in 1..Len(terminal.items) :
                            terminal.items[i] \notin Decodable
                 THEN ret.kind = "err" /\ "value" \notin DOMAIN ret
                 ELSE /\ ret.kind = "ok"
                      /\ Len(ret.value.symbols) = Len(terminal.items)
                      /\ \A i \in 1..Len(terminal.items) :
                             /\ ret.value.symbols[i].symbol
                                    = CarriedSymbol(terminal.items[i])
                             /\ ret.value.symbols[i].name
                                    = CarriedName(terminal.items[i])
                             /\ ret.value.symbols[i].platform = None
                                    <=> terminal.items[i] \notin
                                            {ElemPlatform, ElemPositional}

\* an array of two different elements has been decoded in order
C6_Witness ==
    /\ Done("deserialize_all_symbols")
    /\ arg = Wrap1("data", Wrap1("body", Wrap1("data",
                 JArray(<< ElemPositional, ElemPlain >>))))
    /\ ret.kind = "ok"
    /\ ret.value.symbols[1].symbol = Y_WBTC
    /\ ret.value.symbols[1].platform # None
    /\ ret.value.symbols[1].platform[1].name = P_Ethereum
    /\ ret.value.symbols[2].symbol = Y_BTC

====
